---- MODULE Spec2Model ----
(***************************************************************************)
(* Model of scripts/ingest_financial_data.py: the FinancialDataPipeline    *)
(* ETL script.  One run of the script is                                   *)
(*     pipeline = FinancialDataPipeline()   (opens the warehouse session)  *)
(*     pipeline.run_pipeline()              (extract, validate, load)      *)
(* The HTTP API (requests.get) and the warehouse (snowflake.connector,     *)
(* write_pandas) are the environment: every outcome they can produce is a  *)
(* nondeterministic choice of the action that calls them, and the calls    *)
(* the script makes on them are recorded in the logs `requests`, `loads`,  *)
(* `opened` and `closed`.                                                  *)
(*                                                                         *)
(* Encodings.  A calendar date "YYYY-MM-DD" is the integer YYYYMMDD.  A    *)
(* price is held in tenths (150.0 is 1500, 148.5 is 1485).  The timestamp  *)
(* columns (created_at, updated_at, ingested_at) are left out of the rows: *)
(* datetime.utcnow() never fails and no row is compared on them.           *)
(***************************************************************************)
EXTENDS Integers, Sequences, FiniteSets, TLC

VARIABLES
    pc,               \* position of the script
    sf_conn,          \* self.sf_conn: "None" or "conn"
    opened,           \* number of snowflake.connector.connect() calls that returned a session
    closed,           \* number of sf_conn.close() calls
    data,             \* the list `data` of fetch_stock_prices
    idx,              \* loop position of `for company in self.companies[:2]`
    fetch_state,      \* fetch_stock_prices: "not_called", "running", "returned", "raised"
    companies_df,     \* run_pipeline's companies_df
    stock_prices_df,  \* run_pipeline's stock_prices_df
    requests,         \* log of requests.get calls: <<[ticker, resp]>>
    loads,            \* log of write_pandas calls: <<[table, rows, ok]>>
    completed,        \* "Pipeline completed successfully!" was logged
    raising,          \* an exception is propagating out of run_pipeline
    outcome,          \* "running", "returned" or "raised": how the script ended
    arg_df,           \* argument of a direct validate_data call
    ret_valid         \* its return value

vars == <<pc, sf_conn, opened, closed, data, idx, fetch_state, companies_df,
          stock_prices_df, requests, loads, completed, raising, outcome,
          arg_df, ret_valid>>

(***************************************************************************)
(* Bounds of the model.                                                    *)
(***************************************************************************)
\* largest number of daily entries in one HTTP response body
MaxEntries == 31
\* largest number of rows of a data frame handed to validate_data directly
MaxRows == 3

(***************************************************************************)
(* Program constants.                                                      *)
(***************************************************************************)
\* self.companies (lines 26-32)
companies ==
    << [ticker |-> "AAPL", name |-> "Apple Inc.",        sector |-> "Technology"],
       [ticker |-> "JPM",  name |-> "JPMorgan Chase",    sector |-> "Finance"],
       [ticker |-> "JNJ",  name |-> "Johnson & Johnson", sector |-> "Healthcare"],
       [ticker |-> "PG",   name |-> "Procter & Gamble",  sector |-> "Consumer"],
       [ticker |-> "XOM",  name |-> "Exxon Mobil",       sector |-> "Energy"] >>

\* a loop over the whole catalog, without the slice
FetchLimitWholeCatalog == Len(companies)
\* the slice bound of self.companies[:2]
FetchLimit == 2

\* the slice bound of list(...items())[:30]
DailyLimit == 30

\* Python's s[:n]
Take(s, n) == SubSeq(s, 1, IF Len(s) < n THEN Len(s) ELSE n)

\* the tickers queried: self.companies[:2]
QueriedCompanies == Take(companies, FetchLimit)

\* mock_prices (lines 164-173)
mock_prices ==
    << [ticker |-> "AAPL", date |-> 20250110, open_price |-> 1500, close_price |-> 1510,
        high_price |-> 1520, low_price |-> 1495, volume |-> 50000000],
       [ticker |-> "AAPL", date |-> 20250109, open_price |-> 1485, close_price |-> 1490,
        high_price |-> 1500, low_price |-> 1480, volume |-> 45000000],
       [ticker |-> "JPM",  date |-> 20250110, open_price |-> 2000, close_price |-> 2010,
        high_price |-> 2020, low_price |-> 1995, volume |-> 30000000],
       [ticker |-> "JPM",  date |-> 20250109, open_price |-> 1990, close_price |-> 2000,
        high_price |-> 2010, low_price |-> 1985, volume |-> 28000000] >>

\* table_name.upper()
Upper(table_name) ==
    CASE table_name = "stg_companies"    -> "STG_COMPANIES"
      [] table_name = "stg_stock_prices" -> "STG_STOCK_PRICES"
      [] OTHER                           -> table_name

(***************************************************************************)
(* The HTTP API boundary: what one requests.get call can produce.          *)
(* A response is described by                                              *)
(*   kind    "error": requests.get raised (timeout, no network);           *)
(*           "http":  a response came back                                 *)
(*   status  the HTTP status code                                          *)
(*   body    "html": not JSON; "note": a JSON object without the series    *)
(*           field; "series": a JSON object with "Time Series (Daily)"     *)
(*   n       number of "date": {...} members written in the series object  *)
(*   dupAt   0, or the member that repeats the date key of member 1        *)
(*   badAt   0, or the member whose price object is ill-formed             *)
(*   badKind "missing_key" (no "6. volume") or "non_numeric" ("1. open")   *)
(***************************************************************************)
TimeSeriesKey == "Time Series (Daily)"

\* the price fields read by lines 82-86, in the order the dict literal reads them
PriceKeys == <<"1. open", "4. close", "2. high", "3. low", "6. volume">>

PriceKeySet == {PriceKeys[i] : i \in 1..Len(PriceKeys)}

\* the date key of the i-th most recent day: 2025-01-31 back to 2025-01-01, then December 2024
DateOf(i) == IF i <= 31 THEN 20250132 - i ELSE 20241232 - (i - 31)

\* a JSON string holding a number, and one that does not
NumStr(v) == [num |-> TRUE, val |-> v]
NotNumStr == [num |-> FALSE, val |-> 0]

RawPrices(r, i) ==
    IF i = r.badAt /\ r.badKind = "missing_key"
    THEN [k \in PriceKeySet \ {"6. volume"} |-> NumStr(1000 + i)]
    ELSE IF i = r.badAt /\ r.badKind = "non_numeric"
    THEN [k \in PriceKeySet |-> IF k = "1. open" THEN NotNumStr ELSE NumStr(1000 + i)]
    ELSE [k \in PriceKeySet |-> NumStr(1000 + i)]

\* the members of the series object, as written in the body
RawPairs(r) ==
    [i \in 1..r.n |-> [date   |-> DateOf(IF i = r.dupAt THEN 1 ELSE i),
                       prices |-> RawPrices(r, i)]]

NoSeries == [n |-> 0, dupAt |-> 0, badAt |-> 0, badKind |-> "none"]

SeriesLengths == (0..3) \cup (DailyLimit..MaxEntries)

SeriesShapes ==
    { s \in [n : SeriesLengths, dupAt : {0, 2}, badAt : 0..MaxEntries,
             badKind : {"none", "missing_key", "non_numeric"}] :
        /\ s.dupAt <= s.n
        /\ s.badAt <= s.n
        /\ s.badAt \in {0, 1, 2, s.n}
        /\ (s.badAt = 0) <=> (s.badKind = "none") }

MkResponse(kind, status, body, s) ==
    [kind |-> kind, status |-> status, body |-> body,
     n |-> s.n, dupAt |-> s.dupAt, badAt |-> s.badAt, badKind |-> s.badKind]

Responses ==
    {MkResponse("error", 0, "none", NoSeries)}
    \cup {MkResponse("http", 429, "html", NoSeries)}
    \cup {MkResponse("http", 429, "series", [NoSeries EXCEPT !.n = 1])}
    \cup {MkResponse("http", 200, b, NoSeries) : b \in {"html", "note"}}
    \cup {MkResponse("http", 200, "series", s) : s \in SeriesShapes}

(***************************************************************************)
(* fetch_stock_prices (lines 56-98), one loop iteration.                   *)
(***************************************************************************)
\* json: an object's members become a dict: a repeated key keeps its first
\* position and takes its last value
DictItems(pairs) ==
    LET n == Len(pairs)
        IsFirst(i) == \A j \in 1..(i - 1) : pairs[j].date # pairs[i].date
        LastOf(d)  == CHOOSE i \in 1..n :
                         /\ pairs[i].date = d
                         /\ \A j \in (i + 1)..n : pairs[j].date # d
        tagged == [i \in 1..n |-> [date   |-> pairs[i].date,
                                   prices |-> pairs[LastOf(pairs[i].date)].prices,
                                   first  |-> IsFirst(i)]]
        kept == SelectSeq(tagged, LAMBDA e : e.first)
    IN  [i \in 1..Len(kept) |-> [date |-> kept[i].date, prices |-> kept[i].prices]]

\* response.json() of a JSON body (line 76)
response_json(r) ==
    IF r.body = "series"
    THEN (TimeSeriesKey :> DictItems(RawPairs(r)))
    ELSE ("Note" :> <<>>)

\* list(result["Time Series (Daily)"].items())[:30] (line 78)
\* (the same without the [:30])
DailySliceAll(items) == items
DailySlice(items) == Take(items, DailyLimit)

\* the exception lines 82-86 raise on an entry, or "none"
EntryError(prices) ==
    LET bad == {i \in 1..Len(PriceKeys) :
                   \/ PriceKeys[i] \notin DOMAIN prices
                   \/ ~prices[PriceKeys[i]].num}
        first == CHOOSE i \in bad : \A j \in bad : i <= j
    IN  IF bad = {} THEN "none"
        ELSE IF PriceKeys[first] \notin DOMAIN prices THEN "KeyError"
        ELSE "ValueError"

\* the dict appended by lines 79-88
make_record(ticker, item) ==
    [ticker      |-> ticker,
     date        |-> item.date,
     open_price  |-> item.prices["1. open"].val,
     close_price |-> item.prices["4. close"].val,
     high_price  |-> item.prices["2. high"].val,
     low_price   |-> item.prices["3. low"].val,
     volume      |-> item.prices["6. volume"].val]

\* the loop of lines 78-88: the records appended before the first entry that raises
parse_entries(ticker, items) ==
    LET bad   == {i \in 1..Len(items) : EntryError(items[i].prices) # "none"}
        first == IF bad = {} THEN 0 ELSE CHOOSE i \in bad : \A j \in bad : i <= j
        last  == IF first = 0 THEN Len(items) ELSE first - 1
    IN  [records |-> [i \in 1..last |-> make_record(ticker, items[i])],
         exc     |-> IF first = 0 THEN "none" ELSE EntryError(items[first].prices)]

\* lines 73-93 for one company: the records appended to `data` and the exception raised
fetch_one(ticker, r) ==
    IF r.kind = "error"
    THEN [records |-> <<>>, exc |-> "RequestException"]
    ELSE IF r.status = 200
    THEN IF r.body = "html"
         THEN [records |-> <<>>, exc |-> "JSONDecodeError"]
         ELSE LET result == response_json(r) IN
              IF TimeSeriesKey \in DOMAIN result
              THEN parse_entries(ticker, DailySlice(result[TimeSeriesKey]))
              ELSE [records |-> <<>>, exc |-> "none"]
    ELSE [records |-> <<>>, exc |-> "none"]

\* `except Exception` (line 95): the exception classes it catches
\* (an `except requests.RequestException` in its place)
CatchesRequestErrorsOnly(exc) == exc = "RequestException"
Catches(exc) == exc \in {"RequestException", "JSONDecodeError", "KeyError", "ValueError"}

(***************************************************************************)
(* create_company_dimension, validate_data, load_to_snowflake.             *)
(***************************************************************************)
\* lines 100-106: one row per catalog entry
create_company_dimension == companies

\* pandas' null markers: None in an object column, NaN in a numeric one
None == "None"
NaN == -1
ObjectColumns == {"ticker", "name", "sector"}

\* isnull() of one cell
isnull(col, v) == IF col \in ObjectColumns THEN v = None ELSE v = NaN

\* df.columns.tolist()
columns(df) == IF Len(df) = 0 THEN {} ELSE DOMAIN df[1]

\* df.empty: no rows or no columns
empty(df) == Len(df) = 0 \/ columns(df) = {}

\* df[critical_cols].isnull().sum().sum() (lines 117-120)
null_count(df) ==
    Cardinality({<<i, c>> \in (1..Len(df)) \X columns(df) : isnull(c, df[i][c])})

\* validate_data (lines 108-124): the value returned and whether nulls were warned about
\* (a validator that fails a frame holding nulls)
validate_data_strict(df) ==
    [ret |-> ~empty(df) /\ null_count(df) = 0, warned |-> ~empty(df) /\ null_count(df) > 0]
validate_data(df) ==
    IF empty(df)
    THEN [ret |-> FALSE, warned |-> FALSE]
    ELSE [ret |-> TRUE, warned |-> null_count(df) > 0]

\* load_to_snowflake (lines 126-142): the write_pandas call it makes and whether it
\* raises; write_ok is the environment's answer to write_pandas
\* (the same without the `raise` of line 142)
load_to_snowflake_swallow(df, table_name, write_ok) ==
    [call   |-> [table |-> Upper(table_name), rows |-> df, ok |-> write_ok],
     raised |-> FALSE]
load_to_snowflake(df, table_name, write_ok) ==
    [call   |-> [table |-> Upper(table_name), rows |-> df, ok |-> write_ok],
     raised |-> ~write_ok]

\* lines 159-174: the rows run_pipeline loads to stg_stock_prices
\* (the else branch taken whatever was fetched)
prices_to_load_always_mock(df) == mock_prices
prices_to_load(df) ==
    IF ~empty(df) /\ validate_data(df).ret THEN df ELSE mock_prices

(***************************************************************************)
(* run_pipeline (lines 144-185): the order of its steps.                   *)
(***************************************************************************)
\* (the dimension loaded before the fetch)
RunStepsLoadFirst == <<"create_dim", "load_companies", "fetch", "load_prices">>
RunSteps == <<"create_dim", "fetch", "load_companies", "load_prices">>

\* the step after `step`, "finally" after the last
StepAfter(step) ==
    LET i == CHOOSE k \in 1..Len(RunSteps) : RunSteps[k] = step
    IN  IF i < Len(RunSteps) THEN RunSteps[i + 1] ELSE "finally"

(***************************************************************************)
(* Initial state: the script has started, nothing is constructed yet.      *)
(***************************************************************************)
Init ==
    /\ pc = "connect"
    /\ sf_conn = "None"
    /\ opened = 0
    /\ closed = 0
    /\ data = <<>>
    /\ idx = 1
    /\ fetch_state = "not_called"
    /\ companies_df = <<>>
    /\ stock_prices_df = <<>>
    /\ requests = <<>>
    /\ loads = <<>>
    /\ completed = FALSE
    /\ raising = FALSE
    /\ outcome = "running"
    /\ arg_df = <<>>
    /\ ret_valid = FALSE

(***************************************************************************)
(* __init__ and connect_snowflake (lines 24-54).                           *)
(***************************************************************************)
\* snowflake.connector.connect(...) (lines 38-46): returns a session or raises;
\* the exception leaves __init__ and ends the script
Connect ==
    /\ pc = "connect"
    /\ \E ok \in BOOLEAN :
          IF ok
          THEN /\ sf_conn' = "conn"
               /\ opened' = opened + 1
               /\ pc' = "use_schema"
               /\ outcome' = outcome
          ELSE /\ pc' = "exit"
               /\ outcome' = "raised"
               /\ UNCHANGED <<sf_conn, opened>>
    /\ UNCHANGED <<closed, data, idx, fetch_state, companies_df, stock_prices_df,
                   requests, loads, completed, raising, arg_df, ret_valid>>

\* cursor.execute("USE SCHEMA ...") (lines 48-54): succeeds, or raises out of
\* __init__ so that run_pipeline is never called
UseSchema ==
    /\ pc = "use_schema"
    /\ \E ok \in BOOLEAN :
          IF ok
          THEN /\ pc' = RunSteps[1]
               /\ outcome' = outcome
          ELSE /\ pc' = "exit"
               /\ outcome' = "raised"
    /\ UNCHANGED <<sf_conn, opened, closed, data, idx, fetch_state, companies_df,
                   stock_prices_df, requests, loads, completed, raising, arg_df,
                   ret_valid>>

(***************************************************************************)
(* run_pipeline.                                                           *)
(***************************************************************************)
\* line 152
CreateCompanyDimension ==
    /\ pc = "create_dim"
    /\ companies_df' = create_company_dimension
    /\ pc' = StepAfter("create_dim")
    /\ UNCHANGED <<sf_conn, opened, closed, data, idx, fetch_state, stock_prices_df,
                   requests, loads, completed, raising, outcome, arg_df, ret_valid>>

\* line 153: one iteration of the loop of fetch_stock_prices (lines 63-93), and
\* with the last one (or the first that raises) the `except` and the return
FetchOne ==
    /\ pc = "fetch"
    /\ idx <= Len(QueriedCompanies)
    /\ \E r \in Responses :
          LET ticker == QueriedCompanies[idx].ticker
              out    == fetch_one(ticker, r)
              data1  == data \o out.records
              last   == out.exc # "none" \/ idx = Len(QueriedCompanies)
          IN  /\ requests' = Append(requests, [ticker |-> ticker, resp |-> r])
              /\ data' = data1
              /\ IF out.exc # "none" /\ ~Catches(out.exc)
                 THEN \* the exception leaves fetch_stock_prices: line 180
                      /\ fetch_state' = "raised"
                      /\ raising' = TRUE
                      /\ pc' = "finally"
                      /\ UNCHANGED <<idx, stock_prices_df>>
                 ELSE IF last
                 THEN \* line 98
                      /\ fetch_state' = "returned"
                      /\ stock_prices_df' = data1
                      /\ pc' = StepAfter("fetch")
                      /\ UNCHANGED <<idx, raising>>
                 ELSE /\ fetch_state' = "running"
                      /\ idx' = idx + 1
                      /\ UNCHANGED <<pc, stock_prices_df, raising>>
    /\ UNCHANGED <<sf_conn, opened, closed, companies_df, loads, completed, outcome,
                   arg_df, ret_valid>>

\* lines 156-157
LoadCompanies ==
    /\ pc = "load_companies"
    /\ \E write_ok \in BOOLEAN :
          IF validate_data(companies_df).ret
          THEN LET res == load_to_snowflake(companies_df, "stg_companies", write_ok)
               IN  /\ loads' = Append(loads, res.call)
                   /\ raising' = res.raised
                   /\ pc' = IF res.raised THEN "finally" ELSE StepAfter("load_companies")
          ELSE /\ pc' = StepAfter("load_companies")
               /\ UNCHANGED <<loads, raising>>
    /\ UNCHANGED <<sf_conn, opened, closed, data, idx, fetch_state, companies_df,
                   stock_prices_df, requests, completed, outcome, arg_df, ret_valid>>

\* lines 159-178: the load to stg_stock_prices and, when it returns, the
\* "Pipeline completed successfully!" line
LoadPrices ==
    /\ pc = "load_prices"
    /\ \E write_ok \in BOOLEAN :
          LET res == load_to_snowflake(prices_to_load(stock_prices_df),
                                       "stg_stock_prices", write_ok)
          IN  /\ loads' = Append(loads, res.call)
              /\ raising' = res.raised
              /\ completed' = (~res.raised /\ StepAfter("load_prices") = "finally")
              /\ pc' = IF res.raised THEN "finally" ELSE StepAfter("load_prices")
    /\ UNCHANGED <<sf_conn, opened, closed, data, idx, fetch_state, companies_df,
                   stock_prices_df, requests, outcome, arg_df, ret_valid>>

\* lines 180-185: the exception, if any, is re-raised; the session is closed
Finally ==
    /\ pc = "finally"
    /\ closed' = IF sf_conn # "None" THEN closed + 1 ELSE closed
    /\ outcome' = IF raising THEN "raised" ELSE "returned"
    /\ pc' = "exit"
    /\ UNCHANGED <<sf_conn, opened, data, idx, fetch_state, companies_df,
                   stock_prices_df, requests, loads, completed, raising, arg_df,
                   ret_valid>>

Next ==
    \/ Connect
    \/ UseSchema
    \/ CreateCompanyDimension
    \/ FetchOne
    \/ LoadCompanies
    \/ LoadPrices
    \/ Finally

Spec == Init /\ [][Next]_vars

(***************************************************************************)
(* validate_data called on its own, on any small data frame (a frame of    *)
(* the columns ticker and volume, each cell a value or a null).            *)
(***************************************************************************)
FrameRows == [ticker : {"AAPL", None}, volume : {100, NaN}]

Frames == UNION {[1..n -> FrameRows] : n \in 0..MaxRows}

InitValidate ==
    /\ pc = "validate_call"
    /\ arg_df \in Frames
    /\ ret_valid = FALSE
    /\ sf_conn = "conn"
    /\ opened = 1
    /\ closed = 0
    /\ data = <<>>
    /\ idx = 1
    /\ fetch_state = "not_called"
    /\ companies_df = <<>>
    /\ stock_prices_df = <<>>
    /\ requests = <<>>
    /\ loads = <<>>
    /\ completed = FALSE
    /\ raising = FALSE
    /\ outcome = "running"

\* pipeline.validate_data(df, "x")
ValidateCall ==
    /\ pc = "validate_call"
    /\ ret_valid' = validate_data(arg_df).ret
    /\ pc' = "validate_returned"
    /\ UNCHANGED <<sf_conn, opened, closed, data, idx, fetch_state, companies_df,
                   stock_prices_df, requests, loads, completed, raising, outcome,
                   arg_df>>

NextValidate ==
    \/ Next
    \/ ValidateCall

\* runs of the script, and direct calls of validate_data
SpecValidate == (Init \/ InitValidate) /\ [][NextValidate]_vars

(***************************************************************************)
(* Vocabulary of the properties.                                           *)
(***************************************************************************)
\* what the i-th request's handling did
Handled(i) == fetch_one(requests[i].ticker, requests[i].resp)

NonOkStatus(i) == requests[i].resp.kind = "http" /\ requests[i].resp.status # 200

MissingField(i) ==
    /\ requests[i].resp.kind = "http"
    /\ requests[i].resp.status = 200
    /\ requests[i].resp.body = "note"

\* the i-th fetch failed: non-200, missing field, or an exception
FetchFailed(i) == NonOkStatus(i) \/ MissingField(i) \/ Handled(i).exc # "none"

FetchSucceeded(i) == ~FetchFailed(i)

RowsOf(df, t) == SelectSeq(df, LAMBDA rec : rec.ticker = t)

LoadsTo(table) == SelectSeq(loads, LAMBDA l : l.table = table)

\* run_pipeline was entered and has left through its `finally`
RunEnded == pc = "exit" /\ closed > 0

(***************************************************************************)
(* C1.  From construction to exit, the warehouse connection that was       *)
(* opened is released exactly once, whatever step fails (connection setup  *)
(* after the connection is opened included).                               *)
(***************************************************************************)
C1_ReleasedExactlyOnce == (pc = "exit" /\ opened > 0) => closed = 1

(***************************************************************************)
(* C2.  fetch_stock_prices never raises to its caller, and when every      *)
(* request returns a non-200 status it returns an empty collection.        *)
(***************************************************************************)
C2_FetchNeverRaises ==
    /\ fetch_state # "raised"
    /\ (fetch_state = "returned" /\ \A i \in 1..Len(requests) : NonOkStatus(i))
          => stock_prices_df = <<>>

\* the fetch has returned although a request raised and an entry failed to parse
C2_Witness ==
    /\ fetch_state = "returned"
    /\ Len(requests) = 2
    /\ FetchSucceeded(1)
    /\ Handled(2).exc = "ValueError"

(***************************************************************************)
(* C3.  For every queried entry whose fetch fails (non-200, missing field, *)
(* or an exception in the request or while parsing any daily entry), the   *)
(* returned collection holds no record of that entry's ticker.             *)
(***************************************************************************)
C3_FailedEntryNoRecords ==
    fetch_state = "returned" =>
        \A i \in 1..Len(requests) :
            FetchFailed(i) => RowsOf(stock_prices_df, requests[i].ticker) = <<>>

(***************************************************************************)
(* C4.  When the fetch of the first queried entry fails in any way, the    *)
(* second entry is still queried, and if its response is successful its    *)
(* records are in the result.                                              *)
(***************************************************************************)
C4_SecondStillQueried ==
    (fetch_state = "returned" /\ FetchFailed(1)) =>
        /\ Len(requests) = 2
        /\ FetchSucceeded(2) =>
              RowsOf(stock_prices_df, requests[2].ticker) = Handled(2).records

(***************************************************************************)
(* C5.  At most one load is issued to STG_STOCK_PRICES; a run that         *)
(* completes issued exactly one; it carries the 4 mock rows when the fetch *)
(* yielded nothing and exactly the fetched records otherwise, in which     *)
(* case the mock rows are never loaded.                                    *)
(***************************************************************************)
C5_QuotesLoad ==
    LET q == LoadsTo("STG_STOCK_PRICES") IN
    /\ Len(q) <= 1
    /\ completed => Len(q) = 1
    /\ \A i \in 1..Len(q) :
          IF stock_prices_df = <<>>
          THEN q[i].rows = mock_prices /\ Len(q[i].rows) = 4
          ELSE q[i].rows = stock_prices_df /\ q[i].rows # mock_prices

\* a completed run whose fetch yielded nothing loaded the mock rows
C5_Witness ==
    /\ completed
    /\ fetch_state = "returned"
    /\ stock_prices_df = <<>>
    /\ LoadsTo("STG_STOCK_PRICES") =
          <<[table |-> "STG_STOCK_PRICES", rows |-> mock_prices, ok |-> TRUE]>>

(***************************************************************************)
(* C6.  HTTP requests are issued only for AAPL and JPM, in that order, at  *)
(* most one per entry.                                                     *)
(***************************************************************************)
C6_OnlyFirstTwoOnce ==
    /\ Len(requests) <= 2
    /\ \A i \in 1..Len(requests) : requests[i].ticker = <<"AAPL", "JPM">>[i]

\* both entries were queried although the first one failed
C6_Witness ==
    /\ fetch_state = "returned"
    /\ Len(requests) = 2
    /\ NonOkStatus(1)
    /\ FetchFailed(2)

(***************************************************************************)
(* C7 as stated.  No HTTP request for quotes is issued before the company  *)
(* dimension has been loaded.                                              *)
(***************************************************************************)
C7_DimensionLoadedBeforeFetch ==
    requests # <<>> =>
        \E i \in 1..Len(loads) : loads[i].table = "STG_COMPANIES" /\ loads[i].ok

(***************************************************************************)
(* C7 as amended.  The dimension is built, then the quote fetch runs to    *)
(* its end, and only then is anything loaded: whenever a load has been     *)
(* issued the fetch has returned, every load follows every request, and    *)
(* the first load is the dimension load.                                   *)
(***************************************************************************)
C7_FetchBeforeLoads ==
    loads # <<>> =>
        /\ fetch_state = "returned"
        /\ pc \notin {"create_dim", "fetch"}
        /\ companies_df = create_company_dimension
        /\ loads[1].table = "STG_COMPANIES"

\* the dimension was loaded after both requests had been issued
C7_Witness ==
    /\ Len(requests) = 2
    /\ Len(loads) = 1
    /\ loads[1].table = "STG_COMPANIES"
    /\ loads[1].ok

(***************************************************************************)
(* C8.  A failed load is fatal: it is the last load issued (no retry, no   *)
(* later load, no mock load in its place), the run never reports           *)
(* completion, and run_pipeline ends by raising.                           *)
(***************************************************************************)
C8_LoadFailureFatal ==
    \A i \in 1..Len(loads) :
        ~loads[i].ok =>
            /\ i = Len(loads)
            /\ ~completed
            /\ raising
            /\ pc \in {"finally", "exit"}
            /\ pc = "exit" => outcome = "raised"

\* the load of the fetched quotes failed and the run ended by raising
C8_Witness ==
    /\ pc = "exit"
    /\ outcome = "raised"
    /\ stock_prices_df # <<>>
    /\ Len(loads) = 2
    /\ loads[2].table = "STG_STOCK_PRICES"
    /\ ~loads[2].ok

(***************************************************************************)
(* C9.  validate_data returns false for an empty collection and true for   *)
(* every non-empty one, whatever the number of nulls; it never returns     *)
(* false for the 5-row company dimension, so every run of run_pipeline     *)
(* that ends has attempted the dimension load.                             *)
(***************************************************************************)
C9_ValidateOnlyEmptiness ==
    /\ pc = "validate_returned" => (ret_valid <=> Len(arg_df) > 0)
    /\ Len(create_company_dimension) = 5
    /\ validate_data(create_company_dimension).ret
    /\ RunEnded => Len(LoadsTo("STG_COMPANIES")) = 1

\* a frame whose every cell is null was validated
C9_Witness ==
    /\ pc = "validate_returned"
    /\ Len(arg_df) = 2
    /\ null_count(arg_df) = 4
    /\ ret_valid

(***************************************************************************)
(* C10.  Of every response only the first 30 daily entries are taken: the  *)
(* result holds at most 30 records per ticker and 60 in all, every         *)
(* record's ticker was queried, and no two records share (ticker, date).   *)
(***************************************************************************)
C10_AtMost30PerTicker ==
    /\ Len(data) <= 60
    /\ stock_prices_df \in {<<>>, data}
    /\ \A i \in 1..Len(data) : \E j \in 1..Len(requests) : data[i].ticker = requests[j].ticker
    /\ \A i, j \in 1..Len(data) :
          (data[i].ticker = data[j].ticker /\ data[i].date = data[j].date) => i = j
    /\ \A j \in 1..Len(requests) :
          LET recs  == RowsOf(data, requests[j].ticker)
              items == DictItems(RawPairs(requests[j].resp))
          IN  /\ Len(recs) <= 30
              /\ Len(recs) <= Len(items)
              /\ \A k \in 1..Len(recs) : recs[k].date = items[k].date

\* both responses held 31 days, one of them with a repeated date, and 30 and 30 were taken
C10_Witness ==
    /\ fetch_state = "returned"
    /\ Len(requests) = 2
    /\ requests[1].resp.n = 31 /\ requests[1].resp.dupAt = 0
    /\ requests[2].resp.n = 31 /\ requests[2].resp.dupAt = 2
    /\ Len(stock_prices_df) = 60

====
